---- MODULE Spec2Model ----
(***************************************************************************)
(* Model of the rube-cli agent: the MCPClient tool registry and executor   *)
(* (src/src/mcp/mcp-client.ts, lines 35-236) and the AgentServer route     *)
(* POST /agent/run with processUserInput (same file, lines 257-432).       *)
(*                                                                         *)
(* Text is modelled as a sequence of one-character strings wherever the    *)
(* code looks inside it (userInput); literal pieces of a template are kept *)
(* as single strings, so a composed text is a sequence of strings.         *)
(***************************************************************************)
EXTENDS Integers, Sequences, FiniteSets, TLC

VARIABLES tools, pc, req, frame, reply, calls, trace, held, cli

vars == <<tools, pc, req, frame, reply, calls, trace, held, cli>>

(***************************************************************************)
(* Bounds of the model.                                                    *)
(***************************************************************************)
\* a userInput is the concatenation of at most MaxChunks vocabulary chunks
MaxChunks == 2
\* an executor input map has at most MaxFields fields
MaxFields == 2
\* number of dispatch slots (HTTP requests that can be open together)
NumSlots == 2
\* number of lines the CLI reads from its standard input
MaxLines == 3

Slots == 1..NumSlots

(***************************************************************************)
(* Strings.                                                                *)
(***************************************************************************)
\* String.prototype.toLowerCase on one character of the model's alphabet
LowerChar(c) ==
  CASE c = "E" -> "e"
    [] c = "M" -> "m"
    [] c = "G" -> "g"
    [] c = "H" -> "h"
    [] c = "S" -> "s"
    [] c = "X" -> "x"
    [] c = "I" -> "i"
    [] c = "T" -> "t"
    [] OTHER -> c

\* userInput.toLowerCase(): every character folded to lower case
toLowerCaseNoFold(s) == s

toLowerCase(s) == [i \in 1..Len(s) |-> LowerChar(s[i])]

\* String.prototype.includes: scan the start positions from the left
RECURSIVE includesFrom(_, _, _)
includesFrom(s, kw, i) ==
  IF i + Len(kw) - 1 > Len(s) THEN FALSE
  ELSE IF SubSeq(s, i, i + Len(kw) - 1) = kw THEN TRUE
  ELSE includesFrom(s, kw, i + 1)

includes(s, kw) == includesFrom(s, kw, 1)

\* the keywords tested by the heuristic tool detection
kwEmail    == <<"e", "m", "a", "i", "l">>
kwCalendar == <<"c", "a", "l", "e", "n", "d", "a", "r">>
kwMeeting  == <<"m", "e", "e", "t", "i", "n", "g">>
kwSlack    == <<"s", "l", "a", "c", "k">>
kwGithub   == <<"g", "i", "t", "h", "u", "b">>
kwNotion   == <<"n", "o", "t", "i", "o", "n">>

(***************************************************************************)
(* Tool registry (MCPClient.tools).                                        *)
(***************************************************************************)
MCPTool(name, description, properties, required) ==
  [name |-> name, description |-> description,
   inputSchema |-> [type |-> "object", properties |-> properties,
                    required |-> required]]

\* MCPClient.initializeTools: the fixed catalogue, in registration order
initializeTools ==
  << MCPTool("send_email", "Send an email via Gmail",
             {"to", "subject", "body"}, <<"to", "subject", "body">>),
     MCPTool("create_calendar_event", "Create an event in Google Calendar",
             {"title", "startTime", "endTime", "description"},
             <<"title", "startTime", "endTime">>),
     MCPTool("send_slack_message", "Send a message to Slack",
             {"channel", "message"}, <<"channel", "message">>),
     MCPTool("create_github_issue", "Create an issue on GitHub",
             {"owner", "repo", "title", "body"}, <<"owner", "repo", "title">>),
     MCPTool("create_notion_page", "Create a page in Notion",
             {"databaseId", "title", "properties"}, <<"databaseId", "title">>) >>

\* MCPClient.getAvailableTools: returns this.tools itself
getAvailableTools(registry) == registry

ToolNamesOf(registry) == {registry[i].name : i \in 1..Len(registry)}

\* this.tools.find(t => t.name === toolName) !== undefined
findToolAlways(registry, toolName) == TRUE

findTool(registry, toolName) ==
  \E i \in 1..Len(registry) : registry[i].name = toolName

(***************************************************************************)
(* Executor (MCPClient.executeTool / executeMockTool).                     *)
(* A value of an input map is a string or a Symbol; converting a Symbol    *)
(* inside a template literal raises a TypeError.                           *)
(***************************************************************************)
StrValue(v) == [t |-> "string", v |-> v]
SymValue    == [t |-> "symbol", v |-> "Symbol()"]

SymbolMessage == <<"Cannot convert a Symbol value to a string">>

\* `${input.f}`: the text a template literal renders for field f
Render(input, f) ==
  IF f \in DOMAIN input THEN input[f].v ELSE "undefined"

\* does `${input.f}` throw?
Throws(input, f) == f \in DOMAIN input /\ input[f].t = "symbol"

\* who made an executor call: the dispatch of a slot, or a direct caller
Dispatch(s) == [kind |-> "dispatch", slot |-> s]
Direct      == [kind |-> "direct", slot |-> 0]

Return(value) == [kind |-> "return", value |-> value]
Throw(message) == [kind |-> "throw", message |-> message]
Pending == [kind |-> "pending"]

\* a template literal over the fields fs, with the literal pieces around them
Template(input, fs, text) ==
  IF \E i \in 1..Len(fs) : Throws(input, fs[i])
  THEN Throw(SymbolMessage)
  ELSE Return([success |-> TRUE, result |-> text])

\* the not-found return of executeTool
notFoundBoth(toolName) ==
  [success |-> FALSE, result |-> <<"Tool '", toolName, "' not found">>,
   error |-> <<"Tool '", toolName, "' not found">>]

notFound(toolName) ==
  [success |-> FALSE, error |-> <<"Tool '", toolName, "' not found">>]

\* MCPClient.executeMockTool after its 100 ms delay: the switch
executeMockToolSwapped(toolName, input) ==
  CASE toolName = "send_email" ->
         Template(input, <<"subject", "to">>,
           <<"Email sent to ", Render(input, "subject"),
             " with subject \"", Render(input, "to"), "\"">>)
    [] OTHER -> Return([success |-> FALSE,
                        error |-> <<"Unknown tool: ", toolName>>])

executeMockTool(toolName, input) ==
  CASE toolName = "send_email" ->
         Template(input, <<"to", "subject">>,
           <<"Email sent to ", Render(input, "to"),
             " with subject \"", Render(input, "subject"), "\"">>)
    [] toolName = "create_calendar_event" ->
         Template(input, <<"title", "startTime">>,
           <<"Calendar event \"", Render(input, "title"),
             "\" created for ", Render(input, "startTime")>>)
    [] toolName = "send_slack_message" ->
         Template(input, <<"channel">>,
           <<"Message sent to ", Render(input, "channel")>>)
    [] toolName = "create_github_issue" ->
         Template(input, <<"title">>,
           <<"GitHub issue created: ", Render(input, "title")>>)
    [] toolName = "create_notion_page" ->
         Template(input, <<"title">>,
           <<"Notion page \"", Render(input, "title"), "\" created">>)
    [] OTHER -> Return([success |-> FALSE,
                        error |-> <<"Unknown tool: ", toolName>>])

\* the try/catch of executeTool around the awaited mock call
executeToolNoCatch(outcome) == outcome

executeToolCatch(outcome) ==
  IF outcome.kind = "throw"
  THEN Return([success |-> FALSE, error |-> outcome.message])
  ELSE outcome

\* MCPClient.executeTool up to its first suspension: the lookup, then either
\* the not-found result or the mock call waiting on its timer
executeToolEnter(owner, n, toolName, input) ==
  IF ~findTool(tools, toolName)
  THEN [owner |-> owner, n |-> n, toolName |-> toolName, input |-> input,
        stage |-> "settled", mockRan |-> FALSE, awaited |-> TRUE,
        outcome |-> Return(notFound(toolName))]
  ELSE [owner |-> owner, n |-> n, toolName |-> toolName, input |-> input,
        stage |-> "timer", mockRan |-> TRUE, awaited |-> TRUE,
        outcome |-> Pending]

\* the same call once the timer has fired and executeTool has returned
executeToolResume(c) ==
  [c EXCEPT !.stage = "settled",
            !.outcome = executeToolCatch(executeMockTool(c.toolName, c.input))]

(***************************************************************************)
(* Dispatcher (AgentServer.processUserInput).                              *)
(***************************************************************************)
Range(q) == {q[i] : i \in 1..Len(q)}

\* line 335 assigning the filtered array back to the registry
afterFilterInPlace(registry, requestedTools) ==
  IF Len(requestedTools) > 0
  THEN SelectSeq(registry, LAMBDA t : t.name \in Range(requestedTools))
  ELSE registry

\* line 335: Array.prototype.filter builds a new array and leaves the
\* registry as it was
afterFilter(registry, requestedTools) == registry

\* lines 333-336: the tools the request asked for, in registry order
toolsToUse(registry, requestedTools) ==
  IF Len(requestedTools) > 0
  THEN SelectSeq(getAvailableTools(registry),
                 LAMBDA t : t.name \in Range(requestedTools))
  ELSE getAvailableTools(registry)

\* AgentServer.createSystemPrompt: the tool lines of the prompt
createSystemPrompt(candidates, context) ==
  [i \in 1..Len(candidates) |->
     <<"- ", candidates[i].name, ": ", candidates[i].description>>]

\* lines 351-372 with independent ifs instead of the else-if chain
detectToolNoElse(userInput) ==
  LET has(kw) == includes(toLowerCase(userInput), kw)
      pick(b, name) == IF b THEN <<name>> ELSE <<>>
  IN [toolsUsed |->
        pick(has(kwEmail), "send_email")
        \o pick(has(kwCalendar) \/ has(kwMeeting), "create_calendar_event")
        \o pick(has(kwSlack), "send_slack_message")
        \o pick(has(kwGithub), "create_github_issue")
        \o pick(has(kwNotion), "create_notion_page"),
      finalResponse |->
        <<"I understood your request: \"">> \o userInput
          \o <<"\". How can I help you with that?">>]

\* lines 351-372 with the send_email sentence pasted into the later branches
detectToolPastedText(userInput) ==
  LET has(kw) == includes(toLowerCase(userInput), kw)
      pasted == <<"I'll help you send an email. Based on your request: \"">>
                  \o userInput \o <<"\", I'll execute the send_email tool.">>
  IN IF has(kwEmail) THEN
       [toolsUsed |-> <<"send_email">>, finalResponse |-> pasted]
     ELSE IF has(kwCalendar) \/ has(kwMeeting) THEN
       [toolsUsed |-> <<"create_calendar_event">>, finalResponse |-> pasted]
     ELSE IF has(kwSlack) THEN
       [toolsUsed |-> <<"send_slack_message">>, finalResponse |-> pasted]
     ELSE IF has(kwGithub) THEN
       [toolsUsed |-> <<"create_github_issue">>, finalResponse |-> pasted]
     ELSE IF has(kwNotion) THEN
       [toolsUsed |-> <<"create_notion_page">>, finalResponse |-> pasted]
     ELSE
       [toolsUsed |-> <<>>,
        finalResponse |->
          <<"I understood your request: \"">> \o userInput
            \o <<"\". How can I help you with that?">>]

\* lines 351-372: simple heuristic tool detection
detectTool(userInput) ==
  LET has(kw) == includes(toLowerCase(userInput), kw) IN
  IF has(kwEmail) THEN
    [toolsUsed |-> <<"send_email">>,
     finalResponse |->
       <<"I'll help you send an email. Based on your request: \"">>
         \o userInput \o <<"\", I'll execute the send_email tool.">>]
  ELSE IF has(kwCalendar) \/ has(kwMeeting) THEN
    [toolsUsed |-> <<"create_calendar_event">>,
     finalResponse |->
       <<"I'll help you create a calendar event. Based on your request: \"">>
         \o userInput \o <<"\", I'll execute the create_calendar_event tool.">>]
  ELSE IF has(kwSlack) THEN
    [toolsUsed |-> <<"send_slack_message">>,
     finalResponse |->
       <<"I'll help you send a Slack message. Based on your request: \"">>
         \o userInput \o <<"\", I'll execute the send_slack_message tool.">>]
  ELSE IF has(kwGithub) THEN
    [toolsUsed |-> <<"create_github_issue">>,
     finalResponse |->
       <<"I'll help you create a GitHub issue. Based on your request: \"">>
         \o userInput \o <<"\", I'll execute the create_github_issue tool.">>]
  ELSE IF has(kwNotion) THEN
    [toolsUsed |-> <<"create_notion_page">>,
     finalResponse |->
       <<"I'll help you create a Notion page. Based on your request: \"">>
         \o userInput \o <<"\", I'll execute the create_notion_page tool.">>]
  ELSE
    [toolsUsed |-> <<>>,
     finalResponse |->
       <<"I understood your request: \"">> \o userInput
         \o <<"\". How can I help you with that?">>]

\* line 376 with the shorthand property { userInput }
requestInputShorthand(userInput) ==
  [userInput |-> [t |-> "string", v |-> userInput]]

\* line 376: the input map handed to executeTool
requestInput(userInput) == [request |-> [t |-> "string", v |-> userInput]]

\* lines 380-387 with the tool results fed into the text
buildResponseWithResults(fr, context, now) ==
  [response |-> fr.finalResponse
                 \o <<IF \A i \in 1..Len(fr.toolResults) : fr.toolResults[i].success
                      THEN " Done." ELSE " Failed.">>,
   context |-> [k \in DOMAIN context \cup {"timestamp"} |->
                  IF k = "timestamp" THEN now ELSE context[k]],
   toolsUsed |-> fr.toolsUsed]

\* lines 380-387 with the time of the reply written into the text
buildResponseStamped(fr, context, now) ==
  [response |-> fr.finalResponse \o <<" (", now, ")">>,
   context |-> [k \in DOMAIN context \cup {"timestamp"} |->
                  IF k = "timestamp" THEN now ELSE context[k]],
   toolsUsed |-> fr.toolsUsed]

\* lines 380-387 with the spread after the timestamp: the caller's key wins
buildResponseCallerWins(fr, context, now) ==
  [response |-> fr.finalResponse,
   context |-> [k \in DOMAIN context \cup {"timestamp"} |->
                  IF k \in DOMAIN context THEN context[k] ELSE now],
   toolsUsed |-> fr.toolsUsed]

\* lines 380-387: the AgentResponse
buildResponse(fr, context, now) ==
  [response |-> IF fr.finalResponse # <<>> THEN fr.finalResponse
                ELSE <<"No response generated">>,
   context |-> [k \in DOMAIN context \cup {"timestamp"} |->
                  IF k = "timestamp" THEN now ELSE context[k]],
   toolsUsed |-> fr.toolsUsed]

\* lines 374-378 without the await: every call is started and none awaited
RECURSIVE forLoopNoAwait(_, _, _, _)
forLoopNoAwait(s, userInput, fr, tr) ==
  IF fr.idx > Len(fr.toolsUsed)
  THEN [frame |-> fr, trace |-> tr, pending |-> {}, done |-> TRUE]
  ELSE LET c == executeToolEnter(Dispatch(s), tr.issued + 1,
                                 fr.toolsUsed[fr.idx], requestInput(userInput))
           rest == forLoopNoAwait(s, userInput, [fr EXCEPT !.idx = @ + 1],
                                  [tr EXCEPT !.issued = @ + 1])
       IN [rest EXCEPT !.pending = @ \cup {[c EXCEPT !.awaited = FALSE]}]

\* lines 374-378: for (const toolName of toolsUsed) { await executeTool(..) }
\* run from position fr.idx until a call suspends or the list is exhausted
RECURSIVE forLoop(_, _, _, _)
forLoop(s, userInput, fr, tr) ==
  IF fr.idx > Len(fr.toolsUsed)
  THEN [frame |-> fr, trace |-> tr, pending |-> {}, done |-> TRUE]
  ELSE LET c == executeToolEnter(Dispatch(s), tr.issued + 1,
                                 fr.toolsUsed[fr.idx], requestInput(userInput))
           tr1 == [tr EXCEPT !.issued = @ + 1]
       IN IF c.stage = "settled"
          THEN forLoop(s, userInput,
                       [fr EXCEPT !.idx = @ + 1,
                                  !.toolResults = Append(@, c.outcome.value)],
                       [tr1 EXCEPT !.completed = @ + 1])
          ELSE [frame |-> fr, trace |-> tr1, pending |-> {c}, done |-> FALSE]

(***************************************************************************)
(* Inputs.                                                                 *)
(***************************************************************************)
\* the pieces a userInput is put together from
Vocabulary ==
  { kwEmail, kwCalendar, kwSlack, kwNotion,
    <<"M", "e", "e", "t", "i", "n", "g">>,
    <<"G", "i", "t", "H", "u", "b">>,
    <<"e", "m">>, <<"a", "i", "l">>, <<" ">>,
    <<"i", "s", "s", "u", "e">> }

RECURSIVE Concats(_)
Concats(n) ==
  IF n = 0 THEN {<<>>}
  ELSE Concats(n - 1) \cup {a \o b : a \in Concats(n - 1), b \in Vocabulary}

UserInputs == Concats(MaxChunks)

EmptyContext == [k \in {} |-> "none"]

Contexts ==
  { EmptyContext,
    [source |-> "voice-cli"],
    [source |-> "voice-cli", timestamp |-> "t0"] }

\* the values new Date().toISOString() can take
Times == {"t1", "t2"}

CatalogueNames == ToolNamesOf(initializeTools)

\* the sub-sequences of the catalogue names, a list in another order and a
\* list naming a tool that is not registered
RequestedLists ==
  { LET keep == SelectSeq(initializeTools, LAMBDA t : t.name \in S)
    IN [i \in 1..Len(keep) |-> keep[i].name] : S \in SUBSET CatalogueNames }
  \cup { <<"send_slack_message", "send_email">>, <<"does_not_exist">> }

\* the JSON bodies POST /agent/run receives
Bodies ==
  { [userInput |-> u, context |-> c, tools |-> r] :
      u \in UserInputs, c \in Contexts, r \in RequestedLists }
  \cup { [context |-> c, tools |-> r] : c \in Contexts, r \in RequestedLists }
  \cup { [userInput |-> u] : u \in UserInputs }

\* the bodies of requests that are open together
ConcBodies ==
  { [userInput |-> u, context |-> c, tools |-> r] :
      u \in {kwEmail, kwSlack, <<"M", "e", "e", "t", "i", "n", "g">>, <<" ">>},
      c \in {EmptyContext, [source |-> "voice-cli", timestamp |-> "t0"]},
      r \in {<<>>, <<"send_slack_message">>} }
  \cup { [context |-> EmptyContext] }

\* the arguments of a direct executeTool call
DirectToolNames == CatalogueNames \cup {"does_not_exist"}

InputFields == {"to", "subject", "title", "startTime", "channel", "request"}

InputValues == {StrValue("a@b.com"), SymValue}

InputMaps ==
  UNION { [F -> InputValues] :
            F \in {G \in SUBSET InputFields : Cardinality(G) <= MaxFields} }

(***************************************************************************)
(* State.                                                                  *)
(***************************************************************************)
NoRequest == [idle |-> TRUE]
NoFrame   == [idle |-> TRUE]
NoReply   == [status |-> 0]
NoTrace   == [classified |-> FALSE, issued |-> 0, completed |-> 0]

\* the tool list a caller of the registry holds: nothing yet
NoList == [kind |-> "none"]

\* the VoiceCLI before run(): no server of its own, nothing sent or shown
CliStart ==
  [pc |-> "start", mode |-> "none", health |-> "none", agentServer |-> FALSE,
   started |-> 0, ensured |-> FALSE, stopCalls |-> 0, prompts |-> 0,
   sent |-> 0, inflight |-> 0, errors |-> 0, lines |-> 0, line |-> <<>>]

Init ==
  /\ tools = initializeTools
  /\ pc = [s \in Slots |-> "idle"]
  /\ req = [s \in Slots |-> NoRequest]
  /\ frame = [s \in Slots |-> NoFrame]
  /\ reply = [s \in Slots |-> NoReply]
  /\ calls = {}
  /\ trace = [s \in Slots |-> NoTrace]
  /\ held = NoList
  /\ cli = CliStart

(***************************************************************************)
(* POST /agent/run (AgentServer.setupRoutes).                              *)
(***************************************************************************)
\* line 289 testing only for an absent field
userInputMissingAbsentOnly(body) == "userInput" \notin DOMAIN body

\* line 289: !userInput, true of an absent field and of the empty string
userInputMissing(body) ==
  "userInput" \notin DOMAIN body \/ body.userInput = <<>>

\* line 287: the destructuring defaults
contextOf(body) == IF "context" \in DOMAIN body THEN body.context ELSE EmptyContext
requestedOf(body) == IF "tools" \in DOMAIN body THEN body.tools ELSE <<>>

\* line 290
badRequest == [status |-> 400, json |-> [error |-> <<"userInput is required">>]]

\* lines 296-300: the route's catch
serverError(message) == [status |-> 500, json |-> [error |-> message]]

\* lines 351-352 as fields of the server: every dispatch uses the same pair
localsShared(s) == 1

\* lines 351-352: finalResponse and toolsUsed are locals of the call, so the
\* dispatch on slot s works on its own activation record
localsOf(s) == s

\* the rest of a dispatch after its loop ran as far as it can: either a call
\* is awaited, or processUserInput returns and res.json sends the response
Continue(s, run, others) ==
  /\ calls' = others \cup run.pending
  /\ frame' = [frame EXCEPT ![localsOf(s)] = run.frame]
  /\ trace' = [trace EXCEPT ![s] = run.trace]
  /\ IF run.done
     THEN /\ \E now \in Times :
               reply' = [reply EXCEPT ![s] =
                  [status |-> 200,
                   json |-> buildResponse(frame'[localsOf(s)],
                                          contextOf(req'[s]), now)]]
          /\ pc' = [pc EXCEPT ![s] = "replied"]
     ELSE /\ reply' = reply
          /\ pc' = [pc EXCEPT ![s] = "awaiting"]

\* lines 285-302: validation, then processUserInput up to its first await
runRoute(s, body) ==
  /\ req' = [req EXCEPT ![s] = body]
  /\ IF userInputMissing(body)
     THEN /\ tools' = tools
          /\ reply' = [reply EXCEPT ![s] = badRequest]
          /\ pc' = [pc EXCEPT ![s] = "replied"]
          /\ UNCHANGED <<frame, calls, trace>>
     ELSE LET candidates == toolsToUse(tools, requestedOf(body))
              det == detectTool(body.userInput)
              fr == [toolsToUse |-> candidates,
                     systemPrompt |-> createSystemPrompt(candidates, contextOf(body)),
                     toolsUsed |-> det.toolsUsed,
                     finalResponse |-> det.finalResponse,
                     idx |-> 1,
                     toolResults |-> <<>>]
              tr == [classified |-> TRUE, issued |-> 0, completed |-> 0]
          IN /\ tools' = afterFilter(tools, requestedOf(body))
             /\ Continue(s, forLoop(s, body.userInput, fr, tr), calls)

\* a request arrives on a free slot
Post(s) ==
  /\ pc[s] = "idle"
  /\ \E body \in Bodies : runRoute(s, body)
  /\ UNCHANGED <<held, cli>>

\* a request arrives while others may be open
PostConc(s) ==
  /\ pc[s] = "idle"
  /\ \E body \in ConcBodies : runRoute(s, body)
  /\ UNCHANGED <<held, cli>>

\* the 100 ms timer of a mock call fires: the switch runs, executeTool
\* returns, and whoever awaits the call goes on
TimerFires(c) ==
  /\ c \in calls
  /\ c.stage = "timer"
  /\ UNCHANGED <<tools, held, cli>>
  /\ LET d == executeToolResume(c)
         s == c.owner.slot
     IN IF c.owner.kind = "direct"
        THEN /\ calls' = (calls \ {c}) \cup {d}
             /\ UNCHANGED <<pc, req, frame, reply, trace>>
        ELSE IF ~c.awaited \/ pc[s] # "awaiting"
        THEN /\ calls' = calls \ {c}
             /\ UNCHANGED <<pc, req, frame, reply, trace>>
        ELSE IF d.outcome.kind = "throw"
        THEN /\ calls' = calls \ {c}
             /\ reply' = [reply EXCEPT ![s] = serverError(d.outcome.message)]
             /\ pc' = [pc EXCEPT ![s] = "replied"]
             /\ trace' = [trace EXCEPT ![s].completed = @ + 1]
             /\ UNCHANGED <<req, frame>>
        ELSE /\ req' = req
             /\ Continue(s,
                  forLoop(s, req[s].userInput,
                          [frame[localsOf(s)] EXCEPT !.idx = @ + 1,
                                           !.toolResults = Append(@, d.outcome.value)],
                          [trace[s] EXCEPT !.completed = @ + 1]),
                  calls \ {c})

\* the client has read the reply; the request is over
Deliver(s) ==
  /\ pc[s] = "replied"
  /\ pc' = [pc EXCEPT ![s] = "idle"]
  /\ req' = [req EXCEPT ![s] = NoRequest]
  /\ frame' = [frame EXCEPT ![localsOf(s)] = NoFrame]
  /\ reply' = [reply EXCEPT ![s] = NoReply]
  /\ trace' = [trace EXCEPT ![s] = NoTrace]
  /\ UNCHANGED <<tools, calls, held, cli>>

(***************************************************************************)
(* A caller using MCPClient.executeTool directly.                          *)
(***************************************************************************)
DirectExecute ==
  /\ \A c \in calls : c.owner.kind # "direct"
  /\ \E toolName \in DirectToolNames, input \in InputMaps :
       calls' = calls \cup {executeToolEnter(Direct, 1, toolName, input)}
  /\ UNCHANGED <<tools, pc, req, frame, reply, trace, held, cli>>

\* the caller takes the ToolResult its await produced
Collect(c) ==
  /\ c \in calls
  /\ c.owner.kind = "direct"
  /\ c.stage = "settled"
  /\ calls' = calls \ {c}
  /\ UNCHANGED <<tools, pc, req, frame, reply, trace, held, cli>>

(***************************************************************************)
(* Callers of the registry.                                                *)
(***************************************************************************)
\* line 132 returning a copy of the array
returnedCopy(registry) == [kind |-> "copy", value |-> registry]

\* line 132: return this.tools, the caller holds the registry's own array
returned(registry) == [kind |-> "ref"]

\* the array the caller's reference leads to
heldValue == IF held.kind = "ref" THEN tools ELSE held.value

\* a program calls MCPClient.getAvailableTools
ListTools ==
  /\ held' = returned(getAvailableTools(tools))
  /\ held' # held
  /\ UNCHANGED <<tools, pc, req, frame, reply, calls, trace, cli>>

\* lines 314-317: GET /agent/tools, the client gets the JSON text of the list
GetTools ==
  /\ held' = [kind |-> "copy", value |-> getAvailableTools(tools)]
  /\ held' # held
  /\ UNCHANGED <<tools, pc, req, frame, reply, calls, trace, cli>>

\* what a caller can do to the array it holds
MutateOps == {"shift", "push", "replace"}

applyOp(op, list) ==
  CASE op = "shift"   -> Tail(list)
    [] op = "push"    -> Append(list, MCPTool("does_not_exist", "Added", {}, <<>>))
    [] op = "replace" -> [list EXCEPT ![3] = MCPTool("renamed", "Replaced", {}, <<>>)]

\* the caller changes the array it was given, once
MutateHeld ==
  /\ held.kind # "none"
  /\ heldValue = initializeTools
  /\ \E op \in MutateOps :
       IF held.kind = "ref"
       THEN tools' = applyOp(op, tools) /\ held' = held
       ELSE held' = [held EXCEPT !.value = applyOp(op, @)] /\ tools' = tools
  /\ UNCHANGED <<pc, req, frame, reply, calls, trace, cli>>

\* a program calls executeTool(toolName, {})
DirectLookup ==
  /\ \A c \in calls : c.owner.kind # "direct"
  /\ \E toolName \in DirectToolNames :
       calls' = calls \cup {executeToolEnter(Direct, 1, toolName,
                                             [k \in {} |-> SymValue])}
  /\ UNCHANGED <<tools, pc, req, frame, reply, trace, held, cli>>

(***************************************************************************)
(* Specifications.                                                         *)
(***************************************************************************)
\* the agent server serving one request at a time, on the first slot
Next ==
  \/ Post(1)
  \/ \E c \in calls : TimerFires(c)
  \/ Deliver(1)

Spec == Init /\ [][Next]_vars

\* the agent server with several requests open together
NextConc ==
  \/ \E s \in Slots : PostConc(s)
  \/ \E c \in calls : TimerFires(c)
  \/ \E s \in Slots : Deliver(s)

SpecConc == Init /\ [][NextConc]_vars

\* process, execute and list operations on one registry
NextOps ==
  \/ PostConc(1)
  \/ \E c \in calls : TimerFires(c)
  \/ Deliver(1)
  \/ DirectLookup
  \/ \E c \in calls : Collect(c)
  \/ ListTools
  \/ GetTools

SpecOps == Init /\ [][NextOps]_vars

\* the same, with a caller that changes the list it was given
NextList == NextOps \/ MutateHeld

SpecList == Init /\ [][NextList]_vars

\* a program calling the executor of its own MCPClient
NextExec ==
  \/ DirectExecute
  \/ \E c \in calls : TimerFires(c)
  \/ \E c \in calls : Collect(c)

SpecExec == Init /\ [][NextExec]_vars

\* the same, with the event loop running every timer that is due
FairSpecExec == SpecExec /\ WF_vars(\E c \in calls : TimerFires(c))

(***************************************************************************)
(* The VoiceCLI (src/src/cli/voice-cli.ts).  The agent is reached over     *)
(* HTTP only, so each exchange with it is a request that later succeeds or *)
(* fails.  cli.pc is the await or callback the CLI is parked at; the       *)
(* counters record what it has done so far.                                *)
(***************************************************************************)
exitWord == <<"e", "x", "i", "t">>

\* input.toLowerCase() === 'exit'
isExitExact(input) == input = exitWord

isExit(input) == toLowerCase(input) = exitWord

\* String.prototype.trim over the model's one white-space character
RECURSIVE trimStart(_)
trimStart(s) ==
  IF s # <<>> /\ Head(s) = " " THEN trimStart(Tail(s)) ELSE s

RECURSIVE trimEnd(_)
trimEnd(s) ==
  IF s # <<>> /\ s[Len(s)] = " "
  THEN trimEnd(SubSeq(s, 1, Len(s) - 1))
  ELSE s

trim(s) == trimEnd(trimStart(s))

\* !input.trim()
isBlank(input) == trim(input) = <<>>

\* the lines a user types
CliLines ==
  { exitWord, <<"E", "X", "I", "T">>, <<"E", "x", "i", "t">>,
    <<" ">> \o exitWord, <<>>, <<" ">>, <<" ", " ">>,
    kwEmail, kwSlack \o <<" ">>, <<"i", "s", "s", "u", "e">> }

HealthOutcomes == {"ok", "fail"}
RequestOutcomes == {"ok", "fail"}

\* ensureAgentServer: the catch branch is taken when GET /health rejects
serverNotRunningAlways(outcome) == TRUE

serverNotRunning(outcome) == outcome = "fail"

\* processVoiceCommand up to its await: one POST /agent/run leaves
sendCommand(c) == [c EXCEPT !.sent = @ + 1, !.inflight = @ + 1]

\* askQuestion: rl.question('You: ', ...) shows the prompt
askQuestion(c) == [c EXCEPT !.prompts = @ + 1, !.pc = "prompt"]

\* run() after ensureAgentServer has returned: the mode chosen by the
\* options, up to the first await or pending question of that mode
modeDispatch(c) ==
  LET e == [c EXCEPT !.ensured = TRUE] IN
    { sendCommand([e EXCEPT !.mode = "file", !.pc = "request"]),
      [e EXCEPT !.mode = "file", !.pc = "exited"],
      askQuestion([e EXCEPT !.mode = "interactive"]),
      [e EXCEPT !.mode = "single", !.pc = "ask"] }

\* cli.run() is called
CliRun ==
  /\ cli.pc = "start"
  /\ cli' = [cli EXCEPT !.pc = "health"]
  /\ UNCHANGED <<tools, pc, req, frame, reply, calls, trace, held>>

\* GET /health settles
HealthReply ==
  /\ cli.pc = "health"
  /\ \E outcome \in HealthOutcomes :
       IF serverNotRunning(outcome)
       THEN cli' = [cli EXCEPT !.health = outcome, !.agentServer = TRUE,
                               !.started = @ + 1, !.pc = "starting"]
       ELSE cli' \in modeDispatch([cli EXCEPT !.health = outcome])
  /\ UNCHANGED <<tools, pc, req, frame, reply, calls, trace, held>>

\* the local AgentServer listens: start() resolves
StartDone ==
  /\ cli.pc = "starting"
  /\ cli' \in modeDispatch(cli)
  /\ UNCHANGED <<tools, pc, req, frame, reply, calls, trace, held>>

\* interactive mode: the pending question is answered with a line
Line ==
  /\ cli.pc = "prompt"
  /\ cli.lines < MaxLines
  /\ \E input \in CliLines :
       LET c == [cli EXCEPT !.lines = @ + 1, !.line = input] IN
         cli' = IF isExit(input) THEN [c EXCEPT !.pc = "closed"]
                ELSE IF isBlank(input) THEN askQuestion(c)
                ELSE sendCommand([c EXCEPT !.pc = "request"])
  /\ UNCHANGED <<tools, pc, req, frame, reply, calls, trace, held>>

\* default mode: the one line asked for is read and sent
SingleLine ==
  /\ cli.pc = "ask"
  /\ cli.lines < MaxLines
  /\ \E input \in CliLines :
       cli' = sendCommand([cli EXCEPT !.lines = @ + 1, !.line = input,
                                       !.pc = "request"])
  /\ UNCHANGED <<tools, pc, req, frame, reply, calls, trace, held>>

\* POST /agent/run settles
Response ==
  /\ cli.pc = "request"
  /\ \E outcome \in RequestOutcomes :
       LET c == [cli EXCEPT !.inflight = @ - 1,
                            !.errors = IF outcome = "fail" THEN @ + 1 ELSE @]
       IN  cli' = IF cli.mode = "interactive" THEN askQuestion(c)
                  ELSE IF outcome = "ok" THEN [c EXCEPT !.pc = "done"]
                  ELSE [c EXCEPT !.pc = "exited"]
  /\ UNCHANGED <<tools, pc, req, frame, reply, calls, trace, held>>

\* SIGINT: cleanup, then process.exit(0)
Sigint ==
  /\ cli.pc \notin {"start", "exited"}
  /\ cli' = [cli EXCEPT !.pc = "exited",
                        !.stopCalls = IF cli.agentServer THEN @ + 1 ELSE @]
  /\ UNCHANGED <<tools, pc, req, frame, reply, calls, trace, held>>

\* one run of the CLI
NextCli ==
  \/ CliRun
  \/ HealthReply
  \/ StartDone
  \/ Line
  \/ SingleLine
  \/ Response
  \/ Sigint

SpecCli == Init /\ [][NextCli]_vars

(***************************************************************************)
(* Properties.                                                             *)
(***************************************************************************)
Served(s) == pc[s] = "replied" /\ reply[s].status = 200

HasInput(s) == pc[s] # "idle" /\ "userInput" \in DOMAIN req[s]

\* the generic fallback text for userInput u
FallbackText(u) ==
  <<"I understood your request: \"">> \o u
    \o <<"\". How can I help you with that?">>

\* kw occurs in u at some position, letter case ignored
ContainsCI(u, kw) ==
  \E i \in 1..Len(u) :
    /\ i + Len(kw) - 1 <= Len(u)
    /\ \A j \in 1..Len(kw) : LowerChar(u[i + j - 1]) = kw[j]

\* the reference rule table, in priority order
RuleTable ==
  << [keywords |-> {kwEmail},               tool |-> "send_email"],
     [keywords |-> {kwCalendar, kwMeeting}, tool |-> "create_calendar_event"],
     [keywords |-> {kwSlack},               tool |-> "send_slack_message"],
     [keywords |-> {kwGithub},              tool |-> "create_github_issue"],
     [keywords |-> {kwNotion},              tool |-> "create_notion_page"] >>

RuleMatches(u) ==
  {i \in 1..Len(RuleTable) : \E kw \in RuleTable[i].keywords : ContainsCI(u, kw)}

\* first matching rule wins; no rule, no tool
RefSelection(u) ==
  IF RuleMatches(u) = {} THEN <<>>
  ELSE <<RuleTable[CHOOSE i \in RuleMatches(u) :
                      \A j \in RuleMatches(u) : i <= j].tool>>

\* C1: with a non-empty allowedTools list, only a tool of the candidate set
\* (the registry filtered by allowedTools) is ever selected or executed; when
\* the keyword-matched tool is excluded, toolsUsed is empty, the fallback text
\* is returned and the Executor is not called.
C1_OnlyCandidatesSelected ==
  \A s \in Slots :
    (HasInput(s) /\ trace[s].classified /\ Len(requestedOf(req[s])) > 0) =>
      LET cand == ToolNamesOf(toolsToUse(tools, requestedOf(req[s])))
          excluded == RefSelection(req[s].userInput) # <<>>
                      /\ RefSelection(req[s].userInput)[1] \notin cand
      IN /\ Range(frame[s].toolsUsed) \subseteq cand
         /\ \A c \in calls : c.owner = Dispatch(s) => c.toolName \in cand
         /\ excluded => /\ frame[s].toolsUsed = <<>>
                        /\ trace[s].issued = 0
                        /\ Served(s) =>
                             /\ reply[s].json.toolsUsed = <<>>
                             /\ reply[s].json.response
                                  = FallbackText(req[s].userInput)

\* C2: a request with a non-empty userInput is answered with a response whose
\* toolsUsed has at most one element, and that element names a registered tool.
C2_AtMostOneRegisteredTool ==
  \A s \in Slots :
    (pc[s] = "replied" /\ "userInput" \in DOMAIN req[s]
       /\ Len(req[s].userInput) > 0) =>
      /\ reply[s].status = 200
      /\ Len(reply[s].json.toolsUsed) <= 1
      /\ \A i \in 1..Len(reply[s].json.toolsUsed) :
           reply[s].json.toolsUsed[i] \in CatalogueNames

C2_Witness ==
  \E s \in Slots :
    /\ Served(s)
    /\ Len(reply[s].json.toolsUsed) = 1
    /\ requestedOf(req[s]) # <<>>
    /\ contextOf(req[s]) # EmptyContext

\* C3: the tool selected for a userInput is the one the reference rule table
\* gives (priority order, first match wins, case-insensitive substring test on
\* the raw input); an input with "email" and also "slack" or "meeting"
\* resolves to send_email.
C3_ClassificationIsRuleTable ==
  \A s \in Slots :
    (HasInput(s) /\ trace[s].classified) =>
      /\ frame[s].toolsUsed = RefSelection(req[s].userInput)
      /\ (ContainsCI(req[s].userInput, kwEmail)
            /\ (ContainsCI(req[s].userInput, kwSlack)
                  \/ ContainsCI(req[s].userInput, kwMeeting)))
           => frame[s].toolsUsed = <<"send_email">>

C3_Witness ==
  \E s \in Slots :
    /\ Served(s)
    /\ ContainsCI(req[s].userInput, kwEmail)
    /\ ContainsCI(req[s].userInput, kwMeeting)
    /\ ~includes(req[s].userInput, kwMeeting)
    /\ reply[s].json.toolsUsed = <<"send_email">>

\* C4: a request whose userInput is missing or empty is answered 400 with
\* error 'userInput is required' before any classification: no tool selected,
\* no Executor call, no DispatchResponse.
C4_EmptyInputRejected ==
  \A s \in Slots :
    (pc[s] # "idle"
       /\ ("userInput" \notin DOMAIN req[s] \/ Len(req[s].userInput) = 0)) =>
      /\ pc[s] = "replied"
      /\ reply[s].status = 400
      /\ reply[s].json = [error |-> <<"userInput is required">>]
      /\ ~trace[s].classified
      /\ trace[s].issued = 0
      /\ frame[s] = NoFrame
      /\ \A c \in calls : c.owner # Dispatch(s)

C4_Witness ==
  \E s \in Slots :
    /\ pc[s] = "replied"
    /\ "userInput" \in DOMAIN req[s]
    /\ req[s].userInput = <<>>
    /\ reply[s].status = 400

\* sample ToolResults, successful and failed
SampleResults ==
  { [success |-> TRUE, result |-> <<"Message sent to ", "undefined">>],
    [success |-> FALSE, error |-> <<"Tool '", "send_email", "' not found">>],
    [success |-> FALSE, error |-> SymbolMessage] }

TemplateFields(toolName) ==
  CASE toolName = "send_email"            -> {"to", "subject"}
    [] toolName = "create_calendar_event" -> {"title", "startTime"}
    [] toolName = "send_slack_message"    -> {"channel"}
    [] toolName = "create_github_issue"   -> {"title"}
    [] toolName = "create_notion_page"    -> {"title"}
    [] OTHER                              -> {}

\* the underlying action of call c raises: its tool is registered and a field
\* its template reads holds a value that cannot be converted to a string
Raises(c) ==
  /\ c.toolName \in CatalogueNames
  /\ \E f \in TemplateFields(c.toolName) :
       f \in DOMAIN c.input /\ c.input[f] = SymValue

\* the text of placeholder <f>
Fill(input, f) == IF f \in DOMAIN input THEN input[f].v ELSE "undefined"

\* the result templates of the five tools
RefResult(toolName, input) ==
  CASE toolName = "send_email" ->
         <<"Email sent to ", Fill(input, "to"), " with subject \"",
           Fill(input, "subject"), "\"">>
    [] toolName = "create_calendar_event" ->
         <<"Calendar event \"", Fill(input, "title"), "\" created for ",
           Fill(input, "startTime")>>
    [] toolName = "send_slack_message" ->
         <<"Message sent to ", Fill(input, "channel")>>
    [] toolName = "create_github_issue" ->
         <<"GitHub issue created: ", Fill(input, "title")>>
    [] toolName = "create_notion_page" ->
         <<"Notion page \"", Fill(input, "title"), "\" created">>

Settled == {c \in calls : c.stage = "settled"}

\* a completed call completed by returning a ToolResult, and one whose
\* underlying action raised returned the raised message with success:false
ReturnedToolResult ==
  \A c \in Settled :
    /\ c.outcome.kind = "return"
    /\ c.outcome.value.success \in BOOLEAN
    /\ Raises(c) =>
         c.outcome.value = [success |-> FALSE, error |-> SymbolMessage]

\* C6: execute never throws past its boundary: whatever the toolName and the
\* input map, a call completes, and completes with a ToolResult; when the
\* underlying action raised, the ToolResult is success:false with the raised
\* error's message.
C6_ExecuteNeverThrows ==
  /\ []ReturnedToolResult
  /\ (\E c \in calls : c.stage = "timer") ~> (Settled # {})

C6_Witness ==
  \E c \in Settled :
    /\ Raises(c)
    /\ c.toolName = "create_calendar_event"
    /\ c.outcome.kind = "return"
    /\ ~c.outcome.value.success

\* C7: every ToolResult has exactly one of result/error: result is present
\* iff success is true, error is present iff success is false.
C7_ResultXorError ==
  \A c \in Settled :
    c.outcome.kind = "return" =>
      LET r == c.outcome.value
      IN /\ ("result" \in DOMAIN r) <=> r.success
         /\ ("error" \in DOMAIN r) <=> ~r.success

C7_Witness ==
  \E c \in Settled :
    /\ c.outcome.kind = "return"
    /\ ~c.outcome.value.success
    /\ c.toolName \notin CatalogueNames
    /\ DOMAIN c.outcome.value = {"success", "error"}

\* C8: for a toolName that is not in the registry, execute returns
\* {success:false, error:"Tool '<toolName>' not found"} and the mock action
\* is never run for it.
C8_UnknownToolNotFound ==
  \A c \in calls :
    c.toolName \notin ToolNamesOf(tools) =>
      /\ c.stage = "settled"
      /\ ~c.mockRan
      /\ c.outcome = Return([success |-> FALSE,
                             error |-> <<"Tool '", c.toolName, "' not found">>])

C8_Witness ==
  \E c \in Settled :
    /\ c.toolName = "does_not_exist"
    /\ c.input # [k \in {} |-> SymValue]
    /\ ~c.outcome.value.success

InFlight(s) == {c \in calls : c.owner = Dispatch(s)}

\* C10: a dispatch issues at most one Executor call, never has two in flight,
\* and has received the ToolResult of every call it issued before its response
\* is composed and returned.
C10_OneCallAwaited ==
  \A s \in Slots :
    /\ trace[s].issued <= 1
    /\ Cardinality(InFlight(s)) <= 1
    /\ pc[s] = "replied" =>
         /\ InFlight(s) = {}
         /\ trace[s].completed = trace[s].issued
    /\ pc[s] = "awaiting" => Cardinality(InFlight(s)) = 1

C10_Witness ==
  \E s \in Slots :
    /\ Served(s)
    /\ trace[s].issued = 1
    /\ trace[s].completed = 1
    /\ InFlight(s) = {}

C12_SameArgumentsSameReply ==
  \A s, t \in Slots :
    (Served(s) /\ Served(t) /\ req[s] = req[t]) =>
      /\ reply[s].json.response = reply[t].json.response
      /\ reply[s].json.toolsUsed = reply[t].json.toolsUsed
      /\ DOMAIN reply[s].json.context = DOMAIN reply[t].json.context
      /\ \A k \in DOMAIN reply[s].json.context \ {"timestamp"} :
           reply[s].json.context[k] = reply[t].json.context[k]

C12_Witness ==
  \E s, t \in Slots :
    /\ s # t
    /\ Served(s) /\ Served(t)
    /\ req[s] = req[t]
    /\ reply[s].json.toolsUsed = <<"create_calendar_event">>
    /\ reply[s].json.context["timestamp"] # reply[t].json.context["timestamp"]

\* the names of the five initial definitions, in registration order
InitialNames ==
  <<"send_email", "create_calendar_event", "send_slack_message",
    "create_github_issue", "create_notion_page">>

NamesIn(list) == [i \in 1..Len(list) |-> list[i].name]

\* C13: list() returns the registered definitions in registration order as a
\* defensive copy: whatever a caller does to the sequence it was given, later
\* list() calls, dispatches and execute lookups observe the registry as it was
\* registered.
C13_ListIsDefensiveCopy ==
  /\ NamesIn(getAvailableTools(tools)) = InitialNames
  /\ \A s \in Slots :
       (pc[s] # "idle" /\ trace[s].classified) =>
         NamesIn(frame[s].toolsToUse)
           = SelectSeq(InitialNames,
                       LAMBDA n : requestedOf(req[s]) = <<>>
                                  \/ n \in Range(requestedOf(req[s])))
  /\ \A c \in calls :
       c.mockRan <=> \E i \in 1..Len(InitialNames) : InitialNames[i] = c.toolName

\* C14: the registry catalogue is fixed after initialization: after any
\* sequence of process, execute and list operations, successful or failing, it
\* is exactly the five initial definitions in their order.
C14_CatalogueFixed ==
  /\ tools = initializeTools
  /\ NamesIn(tools) = InitialNames
  /\ Len(tools) = Cardinality(CatalogueNames)

C14_Witness ==
  /\ Served(1)
  /\ requestedOf(req[1]) = <<"send_slack_message">>
  /\ trace[1].completed = 1
  /\ held.kind = "ref"
  /\ \E c \in Settled : c.owner = Direct /\ ~c.outcome.value.success

\* the action phrase of each tool
ActionPhrase(toolName) ==
  CASE toolName = "send_email"            -> "send an email"
    [] toolName = "create_calendar_event" -> "create a calendar event"
    [] toolName = "send_slack_message"    -> "send a Slack message"
    [] toolName = "create_github_issue"   -> "create a GitHub issue"
    [] toolName = "create_notion_page"    -> "create a Notion page"

\* the confirmation template for userInput u and tool toolName
ConfirmationText(u, toolName) ==
  <<"I'll help you " \o ActionPhrase(toolName)
      \o ". Based on your request: \"">>
    \o u
    \o <<"\", I'll execute the " \o toolName \o " tool.">>

C16_InvocationIsRequestOnly ==
  \A s \in Slots :
    /\ \A c \in InFlight(s) :
         /\ HasInput(s)
         /\ <<c.toolName>> = RefSelection(req[s].userInput)
         /\ c.toolName = frame[s].toolsUsed[c.n]
         /\ DOMAIN c.input = {"request"}
         /\ c.input["request"] = [t |-> "string", v |-> req[s].userInput]
         /\ \E i \in 1..Len(tools) :
              /\ tools[i].name = c.toolName
              /\ Range(tools[i].inputSchema.required) # {}
              /\ Range(tools[i].inputSchema.required) \cap DOMAIN c.input = {}
    /\ (HasInput(s) /\ trace[s].classified) =>
         (trace[s].issued >= 1 <=> RefSelection(req[s].userInput) # <<>>)
    /\ ~trace[s].classified => trace[s].issued = 0

C16_Witness ==
  \E s \in Slots :
    /\ pc[s] = "awaiting"
    /\ \E c \in InFlight(s) :
         /\ c.toolName = "create_notion_page"
         /\ c.input = [request |-> [t |-> "string", v |-> req[s].userInput]]
         /\ req[s].userInput = kwNotion \o <<" ">>

\* what a dispatch of userInput u returns and invokes when it runs alone
AloneText(u) ==
  IF RefSelection(u) = <<>> THEN FallbackText(u)
  ELSE ConfirmationText(u, RefSelection(u)[1])

\* C17: concurrent dispatches are independent: however dispatches interleave
\* at their Executor suspension points, each one's response text, toolsUsed
\* and Executor invocation are those it has when it runs alone.
C17_DispatchesIndependent ==
  \A s \in Slots :
    /\ \A c \in InFlight(s) :
         /\ HasInput(s)
         /\ <<c.toolName>> = RefSelection(req[s].userInput)
         /\ c.input = [request |-> [t |-> "string", v |-> req[s].userInput]]
    /\ pc[s] = "awaiting" => Cardinality(InFlight(s)) = 1
    /\ (HasInput(s) /\ trace[s].classified) =>
         /\ DOMAIN frame[s] # DOMAIN NoFrame
         /\ frame[s].toolsUsed = RefSelection(req[s].userInput)
         /\ frame[s].finalResponse = AloneText(req[s].userInput)
    /\ (pc[s] = "replied" /\ ~userInputMissing(req[s])) =>
         /\ reply[s].status = 200
         /\ reply[s].json.response = AloneText(req[s].userInput)
         /\ reply[s].json.toolsUsed = RefSelection(req[s].userInput)
         /\ InFlight(s) = {}

C17_Witness ==
  \E s, t \in Slots :
    /\ s # t
    /\ Served(s) /\ trace[s].completed = 1
    /\ reply[s].json.toolsUsed = <<"send_email">>
    /\ pc[t] = "awaiting"
    /\ \E c \in InFlight(t) : c.toolName = "send_slack_message"

\* the keyword table of the usage examples ("Supported Commands")
DocTable ==
  << [keywords |-> {kwEmail, <<"s", "e", "n", "d">>, <<"m", "e", "s", "s", "a", "g", "e">>},
      tool |-> "send_email"],
     [keywords |-> {kwCalendar, kwMeeting, <<"e", "v", "e", "n", "t">>, <<"s", "c", "h", "e", "d", "u", "l", "e">>},
      tool |-> "create_calendar_event"],
     [keywords |-> {kwSlack},
      tool |-> "send_slack_message"],
     [keywords |-> {kwGithub, <<"i", "s", "s", "u", "e">>, <<"p", "u", "l", "l", " ", "r", "e", "q", "u", "e", "s", "t">>},
      tool |-> "create_github_issue"],
     [keywords |-> {kwNotion, <<"n", "o", "t", "e">>, <<"p", "a", "g", "e">>},
      tool |-> "create_notion_page"] >>

DocRows(u) ==
  {i \in 1..Len(DocTable) : \E kw \in DocTable[i].keywords : ContainsCI(u, kw)}

\* C18: the documented keyword table triggers the tools: an input containing
\* a keyword of one row of the table (and of no other row) triggers that row's
\* tool.
C18_DocumentedKeywordsTrigger ==
  \A s \in Slots :
    (HasInput(s) /\ trace[s].classified) =>
      \A i \in 1..Len(DocTable) :
        DocRows(req[s].userInput) = {i} =>
          frame[s].toolsUsed = <<DocTable[i].tool>>

\* ---- C19 ----
\* C19: the CLI starts a local AgentServer exactly when the health check
\* has failed and never more than one; a command is sent only after
\* ensureAgentServer has completed; stop is called only on a server this
\* CLI started.
C19_ReusesRunningServer ==
  /\ cli.started <= 1
  /\ cli.health = "none" => cli.started = 0
  /\ cli.health # "none" => (cli.started = 1 <=> cli.health = "fail")
  /\ cli.sent > 0 => cli.ensured
  /\ cli.ensured => cli.health # "none" /\ cli.pc # "starting"
  /\ cli.stopCalls > 0 => cli.started = 1

C19_Witness ==
  /\ cli.health = "fail"
  /\ cli.started = 1
  /\ cli.sent > 0
  /\ cli.stopCalls = 1

\* ---- C20 ----
\* the line is the word, letter case ignored
EqualsIgnoringCase(l, w) ==
  /\ Len(l) = Len(w)
  /\ \A i \in 1..Len(w) : LowerChar(l[i]) = w[i]

OnlySpaces(l) == \A i \in 1..Len(l) : l[i] = " "

Interactive == cli.mode = "interactive"

LineRead == Interactive /\ cli.pc = "prompt" /\ cli'.lines = cli.lines + 1

Settles == Interactive /\ cli.pc = "request" /\ cli'.pc # "exited"

\* C20: in interactive mode a line "exit" in any letter case closes the
\* session and afterwards nothing is prompted or sent; a blank or
\* white-space line sends nothing and prompts again; any other line sends
\* exactly one request, and when it settles, successfully or not, the
\* prompt is shown again; at most one request is in flight.
C20_InteractiveLoop ==
  [][ /\ LineRead =>
           IF EqualsIgnoringCase(cli'.line, exitWord)
           THEN /\ cli'.pc = "closed"
                /\ cli'.sent = cli.sent
                /\ cli'.prompts = cli.prompts
           ELSE IF OnlySpaces(cli'.line)
           THEN /\ cli'.pc = "prompt"
                /\ cli'.sent = cli.sent
                /\ cli'.prompts = cli.prompts + 1
           ELSE /\ cli'.pc = "request"
                /\ cli'.sent = cli.sent + 1
                /\ cli'.inflight = 1
                /\ cli'.prompts = cli.prompts
      /\ (Interactive /\ cli.pc = "closed") =>
           /\ cli'.pc \in {"closed", "exited"}
           /\ cli'.sent = cli.sent
           /\ cli'.prompts = cli.prompts
      /\ Settles =>
           /\ cli'.pc = "prompt"
           /\ cli'.prompts = cli.prompts + 1
           /\ cli'.inflight = 0
           /\ cli'.sent = cli.sent
      /\ Interactive => cli.inflight <= 1 /\ cli'.inflight <= 1
    ]_vars

C20_Witness ==
  /\ cli.mode = "interactive"
  /\ cli.pc = "closed"
  /\ cli.line = <<"E", "X", "I", "T">>
  /\ cli.sent = 1
  /\ cli.errors = 1
  /\ cli.prompts = 3

\* ---- C21 ----
\* the lookup of line 144 found toolName in the registry
Registered(c) == c.mockRan

\* the return of the mock action's default branch
UnknownTool(toolName) ==
  [success |-> FALSE, error |-> <<"Unknown tool: ", toolName>>]

\* C21: a completed execute call whose action raised no error has
\* success:true exactly when its toolName was found in the registry; no call
\* returns the mock's default 'Unknown tool: <name>'; and every call the
\* dispatcher makes for the tool it selected completes with success:true.
C21_SuccessIffRegistered ==
  \A c \in Settled :
    /\ ~Raises(c) => (c.outcome.value.success <=> Registered(c))
    /\ c.outcome.value # UnknownTool(c.toolName)
    /\ c.owner.kind = "dispatch" => c.outcome.value.success

====
